---- MODULE Spec2Model ----
(***************************************************************************)
(* A model of the sigmorphon-inflection experiment harness:                *)
(*   - Girrbach/experiment.py : the experiment driver experiment() and     *)
(*     its helpers (_make_experiment_name, _check_arguments, ...);         *)
(*   - train_models.py        : the batch runner.                          *)
(*                                                                         *)
(* Floating-point hyperparameters are held as integers counting            *)
(* thousandths (dropout 0.004 is 4, scheduler_gamma 1.0 is 1000), so that  *)
(* np.round(value, 2) is a real rounding of the model's values.            *)
(* Validation scores (val_normalised_edit_distance) are held as small      *)
(* naturals; only their order matters to the code.                         *)
(***************************************************************************)
EXTENDS Integers, Sequences, FiniteSets, TLC

(***************************************************************************)
(* Bounds of the model.                                                    *)
(***************************************************************************)
\* feature counts and autoregressive_order of the naming inputs: 0..MaxFeat
MaxFeat == 1
\* float hyperparameters of the naming inputs, in thousandths: 0..MaxMilli
MaxMilli == 6
\* validation scores: 0..MaxScore
MaxScore == 1
\* number of experiment() invocations in one behaviour of the driver
MaxRuns == 2
\* entries of config["models"] and of config["languages"]
MaxModels == 2
MaxLangs == 2

VARIABLES
    \* ---- experiment(): the filesystem under base_path and the call's locals
    fs,               \* run directory path |-> its contents; DOMAIN = existing paths
    fs0,              \* fs as the current invocation found it (history)
    run,              \* number of the current invocation of experiment() (0: none yet)
    pc,               \* position of the current invocation
    args,             \* the arguments of the current invocation
    experiment_name,  \* local experiment_name ("" until computed)
    base_path,        \* local base_path after line 197 ("" until computed)
    logger,           \* the CSVLogger: Some(its version), or Nothing
    model,            \* the constructed model, or None
    val_rounds,       \* validation scores recorded by trainer.fit of this invocation
    halt_cause,       \* why trainer.fit returned
    loaded,           \* checkpoint_path given to load_from_checkpoint, or None
    read_run,         \* Some(invocation that wrote the metrics.csv read), or Nothing
    best_val_score,   \* Some(local best_val_score), or Nothing
    predictions,      \* local predictions, or None
    error,            \* the exception that ended the invocation, or None
    \* ---- _make_experiment_name on two inputs
    in_a, in_b, name_a, name_b, changed,
    \* ---- train_models.py
    models, languages, mi, li, bpc, running, started, exits,
    \* ---- the training loop configured by experiment()
    epoch, wait_count, best_score, tpc

driverVars == <<fs, fs0, run, pc, args, experiment_name, base_path, logger, model,
                val_rounds, halt_cause, loaded, read_run, best_val_score,
                predictions, error>>
nameVars   == <<in_a, in_b, name_a, name_b, changed>>
batchVars  == <<models, languages, mi, li, bpc, running, started, exits>>
trainVars  == <<epoch, wait_count, best_score, tpc>>
vars       == <<driverVars, nameVars, batchVars, trainVars>>

None == "None"

\* an optional number: Nothing, or Some(n)
Nothing == <<>>
Some(n) == <<n>>

Min(S) == CHOOSE x \in S : \A y \in S : x <= y
Max(S) == CHOOSE x \in S : \A y \in S : x >= y

(***************************************************************************)
(* experiment.py: the experiment identity                                  *)
(***************************************************************************)

\* Python values whose type the code inspects (isinstance): an int n, and a
\* float of n thousandths
PyInt(n)   == [type |-> "int", v |-> n]
PyFloat(n) == [type |-> "float", v |-> n]

\* the fields of Hyperparameters in dataclass order, as asdict() lists them
HyperparameterFields ==
    <<"batch_size", "hidden_size", "num_layers", "dropout", "scheduler_gamma">>

\* np.round(value, 2) of a float of n thousandths, in hundredths; ties go to
\* the even neighbour
Round2(n) ==
    LET q == n \div 10
        r == n % 10
    IN  IF r < 5 THEN q
        ELSE IF r > 5 THEN q + 1
        ELSE IF q % 2 = 0 THEN q ELSE q + 1

\* str() of the Python float of h hundredths, h >= 0: "0.0", "0.01", "0.1", "1.0"
FloatStr(h) ==
    LET whole == h \div 100
        frac  == h % 100
    IN  ToString(whole) \o "." \o
        (IF frac % 10 = 0 THEN ToString(frac \div 10)
         ELSE ToString(frac \div 10) \o ToString(frac % 10))

\* np.round(value, 1) in place of np.round(value, 2)
represent_rounded_to_one_decimal(value) ==
    IF value.type = "float"
    THEN FloatStr(10 * Round2(Round2(value.v)))
    ELSE ToString(value.v)

\* _represent_hyperparameter_value and the str() the f-string applies to its
\* result: a float is rounded to 2 decimals, any other value is kept
_represent_hyperparameter_value(value) ==
    IF value.type = "float"
    THEN FloatStr(Round2(value.v))
    ELSE ToString(value.v)

\* "-".join of the strings f"{param}={value}" of fields k.. of hp
RECURSIVE HyperparameterString(_, _)
HyperparameterString(hp, k) ==
    LET param == HyperparameterFields[k]
        item  == param \o "=" \o _represent_hyperparameter_value(hp[param])
    IN  IF k = Len(HyperparameterFields) THEN item
        ELSE item \o "-" \o HyperparameterString(hp, k + 1)

\* _make_experiment_name; a is the record of its arguments
_make_experiment_name(a) ==
    a.language
        \o "-" \o "model=" \o a.model_type
        \o "-" \o "trial=" \o ToString(a.trial)
        \o "-" \o "num_symbol_features=" \o ToString(a.num_symbol_features)
        \o "-" \o "num_source_features=" \o ToString(a.num_source_features)
        \o "-" \o "autoregressive_order=" \o ToString(a.autoregressive_order)
        \o "-" \o HyperparameterString(a.hyperparameters, 1)

(***************************************************************************)
(* The identity function applied to two inputs that differ in at most one  *)
(* field.                                                                  *)
(***************************************************************************)

\* the command line's defaults, and the language "eng"
DefaultHyperparameters ==
    [batch_size      |-> PyInt(32),
     hidden_size     |-> PyInt(256),
     num_layers      |-> PyInt(1),
     dropout         |-> PyFloat(0),
     scheduler_gamma |-> PyFloat(1000)]

DefaultInput ==
    [language             |-> "eng",
     model_type           |-> "interpretable",
     trial                |-> 1,
     num_symbol_features  |-> 0,
     num_source_features  |-> 0,
     autoregressive_order |-> 0,
     hyperparameters      |-> DefaultHyperparameters]

HyperparameterFieldSet == {HyperparameterFields[k] : k \in 1..Len(HyperparameterFields)}
FloatFields == {"dropout", "scheduler_gamma"}
InputFields ==
    {"language", "model_type", "trial", "num_symbol_features",
     "num_source_features", "autoregressive_order"} \cup HyperparameterFieldSet

\* valid values of each field (the preconditions of _check_arguments hold)
FieldValues(f) ==
    CASE f = "language"        -> {"eng", "deu"}
      [] f = "model_type"      -> {"interpretable", "seq2seq"}
      [] f = "trial"           -> 0..MaxFeat
      [] f = "batch_size"      -> {PyInt(1), PyInt(32)}
      [] f = "hidden_size"     -> {PyInt(1), PyInt(256)}
      [] f = "num_layers"      -> {PyInt(1), PyInt(2), PyInt(3)}
      [] f = "dropout"         -> {PyFloat(n) : n \in (0..MaxMilli) \cup {1000}}
      [] f = "scheduler_gamma" -> {PyFloat(n) : n \in (1..MaxMilli) \cup {1000}}
      [] OTHER                 -> 0..MaxFeat

WithField(a, f, v) ==
    IF f \in HyperparameterFieldSet
    THEN [a EXCEPT !.hyperparameters[f] = v]
    ELSE [a EXCEPT ![f] = v]

FieldOf(a, f) ==
    IF f \in HyperparameterFieldSet THEN a.hyperparameters[f] ELSE a[f]

\* the inputs one field away from the defaults
NameInputs ==
    {WithField(DefaultInput, f, v) : <<f, v>> \in
        UNION {{<<g, w>> : w \in FieldValues(g)} : g \in InputFields}}

\* both names are computed; in_b is in_a with field f set to v
MakeNames ==
    /\ changed = None
    /\ \E f \in InputFields : \E v \in FieldValues(f) :
          /\ changed' = f
          /\ in_b' = WithField(in_a, f, v)
          /\ name_a' = _make_experiment_name(in_a)
          /\ name_b' = _make_experiment_name(in_b')
    /\ UNCHANGED in_a

(***************************************************************************)
(* experiment.py: experiment()                                             *)
(*                                                                         *)
(* The settings that touch neither the filesystem nor the control flow     *)
(* (matmul precision, logging level, accelerator, verbosity) are not state *)
(* of the model.  The collaborators (data module, models, Trainer, logger, *)
(* checkpoint callback) are modelled by their effect on the files under    *)
(* the run directory and by whether they raise.                            *)
(***************************************************************************)

\* _check_arguments without the assert on scheduler_gamma's sign
check_arguments_without_gamma(num_symbol_features, num_source_features, autoregressive_order, hyperparameters) ==
    /\ num_symbol_features >= 0
    /\ num_source_features >= 0
    /\ autoregressive_order >= 0
    /\ hyperparameters.batch_size.type = "int" /\ hyperparameters.batch_size.v >= 1
    /\ hyperparameters.num_layers.type = "int" /\ hyperparameters.num_layers.v >= 1
    /\ hyperparameters.hidden_size.type = "int" /\ hyperparameters.hidden_size.v >= 1
    /\ hyperparameters.dropout.type = "float"
    /\ 0 <= hyperparameters.dropout.v /\ hyperparameters.dropout.v <= 1000
    /\ hyperparameters.scheduler_gamma.type = "float"

\* _check_arguments: TRUE iff every assert passes.  The three counts are
\* ints in the model, so their isinstance(..., int) holds.
_check_arguments(num_symbol_features, num_source_features, autoregressive_order, hyperparameters) ==
    /\ num_symbol_features >= 0
    /\ num_source_features >= 0
    /\ autoregressive_order >= 0
    /\ hyperparameters.batch_size.type = "int" /\ hyperparameters.batch_size.v >= 1
    /\ hyperparameters.num_layers.type = "int" /\ hyperparameters.num_layers.v >= 1
    /\ hyperparameters.hidden_size.type = "int" /\ hyperparameters.hidden_size.v >= 1
    /\ hyperparameters.dropout.type = "float"
    /\ 0 <= hyperparameters.dropout.v /\ hyperparameters.dropout.v <= 1000
    /\ hyperparameters.scheduler_gamma.type = "float"
    /\ hyperparameters.scheduler_gamma.v > 0

\* os.path.join
Join(a, b) == a \o "/" \o b

\* the base_path argument of every invocation (--basepath's default)
ResultsPath == "./results"

\* ---- the filesystem: fs maps each existing run directory to its files, a
\* function from the file's path inside the directory to its content.  A
\* file's content is the invocation that wrote it and the validation scores
\* it holds.
EmptyDir == [f \in {} |-> None]
File(r, vals) == [run |-> r, vals |-> vals]

\* {save_dir}/{name}/version_{k}/metrics.csv, with save_dir = logs
MetricsFile(name, k) ==
    Join(Join(Join("logs", name), "version_" \o ToString(k)), "metrics.csv")

\* the "last" checkpoint of ModelCheckpoint(dirpath = saved_models, save_last = True)
LastCheckpoint == Join("saved_models", "last.ckpt")

\* the top-1 checkpoint: filename = experiment_name + "-{val_normalised_edit_distance}"
BestCheckpoint(name, score) ==
    Join("saved_models",
         name \o "-val_normalised_edit_distance=" \o ToString(score) \o ".ckpt")

\* os.path.exists asked about the results path in place of the run directory
exists_of_results_path(f, path) == ResultsPath \in DOMAIN f

\* os.path.exists
exists(f, path) == path \in DOMAIN f

\* a removal that leaves the directory and its files in place
rmtree_removing_nothing(f, path) == f

\* shutil.rmtree(path, ignore_errors=True).  The run directory holds only
\* what earlier invocations of experiment() wrote into it (single writer),
\* and removing those files meets no error.
rmtree(f, path) == [p \in DOMAIN f \ {path} |-> f[p]]

\* os.makedirs(path, exist_ok=True)
makedirs(f, path) == IF path \in DOMAIN f THEN f ELSE (path :> EmptyDir) @@ f

\* CSVLogger's version when none is given: the first version above every
\* version_{k} already under {save_dir}/{name}
NextVersion(dir, name) ==
    LET used == {k \in 0..MaxRuns : MetricsFile(name, k) \in DOMAIN dir}
    IN  IF used = {} THEN 0 ELSE Max(used) + 1

Scores == 0..MaxScore
KnownModelTypes == {"interpretable", "seq2seq"}

\* ---- the arguments of the invocations: language, trial and the sizes are
\* the command line's defaults; model_type, the counts, dropout,
\* scheduler_gamma, overwrite and get_predictions vary
DriverHyperparameters ==
    {[DefaultHyperparameters EXCEPT ![f] = v] : <<f, v>> \in
        ({"batch_size", "num_layers", "hidden_size"} \X {PyInt(0)})
        \cup ({"dropout"} \X {PyFloat(0), PyFloat(4), PyFloat(-1), PyFloat(1001),
                              PyInt(0)})
        \cup ({"scheduler_gamma"} \X {PyFloat(1000), PyFloat(0), PyFloat(-1)})}

DriverCounts == {<<0, 0, 0>>, <<-1, 0, 0>>, <<0, -1, 0>>, <<0, 0, -1>>}

\* the counts and hyperparameters of an invocation: the defaults with at most
\* one of them replaced
DriverInputs ==
    ({<<0, 0, 0>>} \X DriverHyperparameters)
        \cup (DriverCounts \X {DefaultHyperparameters})

DriverArgs ==
    {[language             |-> "eng",
      model_type           |-> m,
      trial                |-> 1,
      num_symbol_features  |-> i[1][1],
      num_source_features  |-> i[1][2],
      autoregressive_order |-> i[1][3],
      hyperparameters      |-> i[2],
      overwrite            |-> o,
      get_predictions      |-> g] :
        m \in KnownModelTypes \cup {"transformer"}, i \in DriverInputs,
        o \in BOOLEAN, g \in BOOLEAN}

\* args before the first invocation (run = 0)
NoArgs == [a \in {} |-> None]

Finished == {"returned", "raised"}

Raise(e) == pc' = "raised" /\ error' = e

\* lines 172-205: the settings, _check_arguments, the experiment name and
\* the resolution of the run directory
experiment ==
    /\ pc \in Finished \cup {"idle"}
    /\ run < MaxRuns
    /\ \E a \in DriverArgs :
        LET name == _make_experiment_name(a)
            path == Join(ResultsPath, name)
        IN  /\ args' = a
            /\ run' = run + 1
            /\ fs0' = fs
            /\ logger' = Nothing /\ model' = None /\ val_rounds' = {}
            /\ halt_cause' = None /\ loaded' = None /\ read_run' = Nothing
            /\ best_val_score' = Nothing /\ predictions' = None
            /\ IF ~_check_arguments(a.num_symbol_features, a.num_source_features,
                                    a.autoregressive_order, a.hyperparameters)
               THEN /\ Raise("AssertionError")
                    /\ experiment_name' = "" /\ base_path' = ""
                    /\ fs' = fs
               ELSE /\ experiment_name' = name
                    /\ base_path' = path
                    /\ IF exists(fs, path) /\ ~a.overwrite
                       THEN /\ Raise("FileExistsError")
                            /\ fs' = fs
                       ELSE /\ pc' = "logger" /\ error' = None
                            /\ IF exists(fs, path) /\ a.overwrite
                               THEN fs' = makedirs(rmtree(fs, path), path)
                               ELSE fs' = makedirs(fs, path)
    /\ UNCHANGED <<nameVars, batchVars, trainVars>>

\* lines 207-213: the CSVLogger and _make_callbacks
MakeLoggerAndCallbacks ==
    /\ pc = "logger"
    /\ logger' = Some(NextVersion(fs[base_path], experiment_name))
    /\ pc' = "dataset"
    /\ UNCHANGED <<fs, fs0, run, args, experiment_name, base_path, model, val_rounds,
                   halt_cause, loaded, read_run, best_val_score, predictions, error>>
    /\ UNCHANGED <<nameVars, batchVars, trainVars>>

\* lines 215-218: _load_dataset, prepare_data, setup; the data module may raise
LoadDataset ==
    /\ pc = "dataset"
    /\ \E ok \in BOOLEAN :
          IF ok THEN pc' = "model" /\ error' = None
          ELSE Raise("DataError")
    /\ UNCHANGED <<fs, fs0, run, args, experiment_name, base_path, logger, model,
                   val_rounds, halt_cause, loaded, read_run, best_val_score,
                   predictions>>
    /\ UNCHANGED <<nameVars, batchVars, trainVars>>

\* _make_model: the model built, or None for raise ValueError
_make_model(model_type) ==
    IF model_type = "interpretable" THEN "InterpretableTransducer"
    ELSE IF model_type = "seq2seq" THEN "Seq2SeqModel"
    ELSE None

\* lines 220-240: _make_model and the Trainer
MakeModelAndTrainer ==
    /\ pc = "model"
    /\ model' = _make_model(args.model_type)
    /\ IF model' = None THEN Raise("ValueError")
       ELSE pc' = "fit" /\ error' = None
    /\ UNCHANGED <<fs, fs0, run, args, experiment_name, base_path, logger,
                   val_rounds, halt_cause, loaded, read_run, best_val_score,
                   predictions>>
    /\ UNCHANGED <<nameVars, batchVars, trainVars>>

\* the files of the run directory after trainer.fit validated the scores vals:
\* the logger's metrics.csv, the last checkpoint and the top-1 checkpoint
FitFiles(dir, name, version, r, vals) ==
    (MetricsFile(name, version) :> File(r, vals))
        @@ (LastCheckpoint :> File(r, {}))
        @@ (BestCheckpoint(name, Min(vals)) :> File(r, {Min(vals)}))
        @@ dir

\* lines 243-247: trainer.fit.  It returns at the epoch cap or when the early
\* stopping callback stops it, having validated at least once, or it raises.
Fit ==
    /\ pc = "fit"
    /\ \/ \E vals \in SUBSET Scores \ {{}} :
          \E cause \in {"max_epochs", "early_stopping"} :
             /\ val_rounds' = vals
             /\ halt_cause' = cause
             /\ fs' = [fs EXCEPT ![base_path] =
                          FitFiles(@, experiment_name, logger[1], run, vals)]
             /\ pc' = "load" /\ error' = None
       \/ /\ Raise("TrainerError")
          /\ UNCHANGED <<fs, val_rounds, halt_cause>>
    /\ UNCHANGED <<fs0, run, args, experiment_name, base_path, logger, model,
                   loaded, read_run, best_val_score, predictions>>
    /\ UNCHANGED <<nameVars, batchVars, trainVars>>

\* the checkpoint that scored best, in place of the last one
CheckpointPathOfBest == BestCheckpoint(experiment_name, Min(val_rounds))

\* line 249: the checkpoint_path inside the run directory
CheckpointPath == LastCheckpoint

\* lines 248-250: model.load_from_checkpoint
LoadFromCheckpoint ==
    /\ pc = "load"
    /\ loaded' = Join(base_path, CheckpointPath)
    /\ IF CheckpointPath \in DOMAIN fs[base_path]
       THEN pc' = "read" /\ error' = None
       ELSE Raise("FileNotFoundError")
    /\ UNCHANGED <<fs, fs0, run, args, experiment_name, base_path, logger, model,
                   val_rounds, halt_cause, read_run, best_val_score, predictions>>
    /\ UNCHANGED <<nameVars, batchVars, trainVars>>

\* lines 252-256: pd.read_csv of version_0's metrics.csv and best_val_score
ReadLogs ==
    /\ pc = "read"
    /\ LET path == MetricsFile(experiment_name, 0)
           dir  == fs[base_path]
       IN  IF path \in DOMAIN dir
           THEN /\ read_run' = Some(dir[path].run)
                /\ best_val_score' = Some(100 * Min(dir[path].vals))
                /\ pc' = "predict" /\ error' = None
           ELSE /\ Raise("FileNotFoundError")
                /\ UNCHANGED <<read_run, best_val_score>>
    /\ UNCHANGED <<fs, fs0, run, args, experiment_name, base_path, logger, model,
                   val_rounds, halt_cause, loaded, predictions>>
    /\ UNCHANGED <<nameVars, batchVars, trainVars>>

\* lines 258-264: predict, if asked for, and the return
PredictAndReturn ==
    /\ pc = "predict"
    /\ predictions' = IF args.get_predictions THEN "predictions" ELSE None
    /\ pc' = "returned"
    /\ UNCHANGED <<fs, fs0, run, args, experiment_name, base_path, logger, model,
                   val_rounds, halt_cause, loaded, read_run, best_val_score, error>>
    /\ UNCHANGED <<nameVars, batchVars, trainVars>>

\* the other components at rest
NameIdle ==
    /\ in_a = DefaultInput /\ in_b = DefaultInput
    /\ name_a = "" /\ name_b = "" /\ changed = None
BatchIdle ==
    /\ models = <<>> /\ languages = <<>> /\ mi = 1 /\ li = 1
    /\ bpc = "idle" /\ running = 0 /\ started = <<>> /\ exits = <<>>
TrainIdle ==
    /\ epoch = 0 /\ wait_count = 0 /\ best_score = 0 /\ tpc = "idle"
DriverIdle ==
    /\ fs = [p \in {} |-> EmptyDir] /\ fs0 = [p \in {} |-> EmptyDir]
    /\ run = 0 /\ pc = "idle" /\ args = NoArgs
    /\ experiment_name = "" /\ base_path = ""
    /\ logger = Nothing /\ model = None /\ val_rounds = {}
    /\ halt_cause = None /\ loaded = None /\ read_run = Nothing
    /\ best_val_score = Nothing /\ predictions = None /\ error = None

Init == DriverIdle /\ NameIdle /\ BatchIdle /\ TrainIdle

Next ==
    \/ experiment
    \/ MakeLoggerAndCallbacks
    \/ LoadDataset
    \/ MakeModelAndTrainer
    \/ Fit
    \/ LoadFromCheckpoint
    \/ ReadLogs
    \/ PredictAndReturn

\* a sequence of invocations of experiment(), one at a time
Spec == Init /\ [][Next]_vars

\* the identity function on two inputs
InitName ==
    /\ DriverIdle /\ BatchIdle /\ TrainIdle
    /\ in_a \in NameInputs /\ in_b = in_a
    /\ name_a = "" /\ name_b = "" /\ changed = None

NextName == MakeNames /\ UNCHANGED <<driverVars, batchVars, trainVars>>

SpecName == InitName /\ [][NextName]_vars

(***************************************************************************)
(* train_models.py: the batch runner                                       *)
(***************************************************************************)

\* the -p/--project_path argument
ProjectPath == "/project"

\* entries config["models"] may hold; train_path is held as the pair of
\* Path(...).parent (below the project path) and Path(...).name
ModelEntries ==
    {[name |-> "m1", train_dir |-> "scripts", train_name |-> "train1.py"],
     [name |-> "m2", train_dir |-> "Girrbach", train_name |-> "experiment.py"]}

LanguageEntries == {"eng", "deu"}

SeqsUpTo(S, n) == UNION {[1..k -> S] : k \in 0..n}

\* subprocess.run(..., check=False): a non-zero exit is not raised
check_disabled == FALSE

\* line 24: check=True
check == TRUE

\* the inner loop running over the languages from the last to the first
languages_reversed == [k \in 1..Len(languages) |-> languages[Len(languages) + 1 - k]]

\* line 21: the sequence the inner loop runs over
InnerLoopItems == languages

\* lines 22-24: the child process of model m (an entry) and language l
Child(m, l) ==
    [model    |-> m.name,
     language |-> l,
     argv     |-> <<"python3", m.train_name, "--language", l>>,
     cwd      |-> Join(ProjectPath, m.train_dir),
     at       |-> <<mi, li>>]

\* lines 20-24: the body of the inner loop up to the start of the child;
\* subprocess.run then blocks until the child has exited
RunChild ==
    /\ bpc = "loop"
    /\ mi <= Len(models) /\ li <= Len(InnerLoopItems)
    /\ started' = Append(started, Child(models[mi], InnerLoopItems[li]))
    /\ running' = running + 1
    /\ bpc' = "wait"
    /\ UNCHANGED <<models, languages, mi, li, exits>>

\* line 24: the child exits and subprocess.run returns, or raises
\* CalledProcessError on a non-zero exit status, which ends the script
ChildExits ==
    /\ bpc = "wait"
    /\ \E code \in {0, 1} :
          /\ exits' = Append(exits, code)
          /\ running' = running - 1
          /\ IF check /\ code # 0
             THEN bpc' = "aborted" /\ li' = li
             ELSE bpc' = "loop" /\ li' = li + 1
    /\ UNCHANGED <<models, languages, mi, started>>

\* line 20: the inner loop is exhausted, the outer loop takes the next model
NextModel ==
    /\ bpc = "loop"
    /\ mi <= Len(models) /\ li > Len(InnerLoopItems)
    /\ mi' = mi + 1 /\ li' = 1
    /\ UNCHANGED <<models, languages, bpc, running, started, exits>>

\* the outer loop is exhausted: the script ends
BatchDone ==
    /\ bpc = "loop"
    /\ mi > Len(models)
    /\ bpc' = "done"
    /\ UNCHANGED <<models, languages, mi, li, running, started, exits>>

\* lines 13-17: the config is read
InitBatch ==
    /\ DriverIdle /\ NameIdle /\ TrainIdle
    /\ models \in SeqsUpTo(ModelEntries, MaxModels)
    /\ languages \in SeqsUpTo(LanguageEntries, MaxLangs)
    /\ mi = 1 /\ li = 1 /\ bpc = "loop"
    /\ running = 0 /\ started = <<>> /\ exits = <<>>

NextBatch ==
    \/ RunChild /\ UNCHANGED <<driverVars, nameVars, trainVars>>
    \/ ChildExits /\ UNCHANGED <<driverVars, nameVars, trainVars>>
    \/ NextModel /\ UNCHANGED <<driverVars, nameVars, trainVars>>
    \/ BatchDone /\ UNCHANGED <<driverVars, nameVars, trainVars>>

SpecBatch == InitBatch /\ [][NextBatch]_vars

(***************************************************************************)
(* The training loop as experiment() configures it: Trainer(max_epochs =   *)
(* 500, check_val_every_n_epoch = 1) with EarlyStopping(patience = 3,      *)
(* mode = "min") on val_normalised_edit_distance.                          *)
(***************************************************************************)

\* EarlyStopping(patience=3) taken one round too long
patience_plus_one == 3 + 1

\* line 109: patience
patience == 3

\* line 230: max_epochs
max_epochs == 500

\* the scores of the training loop: enough levels for an improvement in
\* every epoch up to the cap
TrainScores == 0..max_epochs

\* EarlyStopping's best_score before the first validation round (mode "min"):
\* infinity, a value above every score
Inf == max_epochs + 1

\* the scores a validation round may yield next, up to what the early stopping
\* callback can tell apart: one below the best so far (it improved), the best
\* so far (it did not), one above it (it got worse)
NextScores(best) == {best - 1, best, best + 1} \cap TrainScores

\* mode = "min", min_delta = 0: the score improved iff it decreased
Improved(score, best) == score < best

\* one epoch: training, its validation round with score v, the early stopping
\* callback, and the loop's exit test
TrainEpoch ==
    /\ tpc = "fitting"
    /\ \E v \in NextScores(best_score) :
        LET improved == Improved(v, best_score)
            wait     == IF improved THEN 0 ELSE wait_count + 1
        IN  /\ epoch' = epoch + 1
            /\ best_score' = IF improved THEN v ELSE best_score
            /\ wait_count' = wait
            /\ tpc' = IF wait >= patience THEN "early_stopping"
                      ELSE IF epoch + 1 >= max_epochs THEN "max_epochs"
                      ELSE "fitting"
    /\ UNCHANGED <<driverVars, nameVars, batchVars>>

InitTrain ==
    /\ DriverIdle /\ NameIdle /\ BatchIdle
    /\ epoch = 0 /\ wait_count = 0 /\ best_score = Inf /\ tpc = "fitting"

\* trainer.fit is a synchronous loop: it keeps taking epochs until it exits
SpecTrain == InitTrain /\ [][TrainEpoch]_vars /\ WF_vars(TrainEpoch)

(***************************************************************************)
(* Properties                                                              *)
(***************************************************************************)

\* the precondition violations of the experiment's arguments: a negative
\* count, a size below 1, a dropout outside [0, 1], a scheduler_gamma <= 0
ViolatesPrecondition(a) ==
    \/ a.num_symbol_features < 0
    \/ a.num_source_features < 0
    \/ a.autoregressive_order < 0
    \/ a.hyperparameters.batch_size.v < 1
    \/ a.hyperparameters.num_layers.v < 1
    \/ a.hyperparameters.hidden_size.v < 1
    \/ a.hyperparameters.dropout.v < 0
    \/ a.hyperparameters.dropout.v > 1000
    \/ a.hyperparameters.scheduler_gamma.v <= 0

\* C1: an invocation of experiment() whose arguments violate a precondition
\* has failed with the assertion error, the filesystem under the results
\* path is as the invocation found it, and neither a logger nor a model was
\* constructed.
C1_PreconditionFailureBeforeAnyEffect ==
    (run > 0 /\ ViolatesPrecondition(args)) =>
        /\ pc = "raised" /\ error = "AssertionError"
        /\ fs = fs0
        /\ logger = Nothing /\ model = None /\ val_rounds = {}

\* a precondition is violated while run directories of earlier invocations
\* exist and overwrite is set
C1_Witness ==
    /\ run > 1 /\ ViolatesPrecondition(args) /\ args.overwrite
    /\ pc = "raised" /\ DOMAIN fs # {}

\* C2: an invocation with an unrecognized model_type that has failed with the
\* unrecognized-model-type error (ValueError) has left the filesystem as it
\* found it: no run directory created, none deleted.
C2_UnknownModelTypeLeavesNoDirectory ==
    (run > 0 /\ args.model_type \notin KnownModelTypes /\ error = "ValueError")
        => fs = fs0

\* C3: an invocation with overwrite = false that computed an identity path
\* which already existed has failed with FileExistsError, every run directory
\* and its contents are unchanged, and no logger, dataset, model or training
\* step was reached.
C3_ExistingDirectoryRefused ==
    (run > 0 /\ base_path # "" /\ ~args.overwrite /\ base_path \in DOMAIN fs0) =>
        /\ pc = "raised" /\ error = "FileExistsError"
        /\ fs = fs0
        /\ logger = Nothing /\ model = None /\ val_rounds = {}
        /\ halt_cause = None /\ loaded = None

\* the refused directory holds the files of an earlier training
C3_Witness ==
    /\ run > 1 /\ base_path # "" /\ ~args.overwrite /\ base_path \in DOMAIN fs0
    /\ error = "FileExistsError"
    /\ LastCheckpoint \in DOMAIN fs[base_path]

NearestHundredths(n) ==
    LET d(h) == IF 10 * h >= n THEN 10 * h - n ELSE n - 10 * h
    IN  {h \in 0..(n \div 10 + 1) :
            \A g \in 0..(n \div 10 + 1) : d(h) <= d(g)}

\* x and y thousandths are the same value to 2 decimals (ties to even)
SameToTwoDecimals(x, y) ==
    LET pick(S) == CHOOSE h \in S : Cardinality(S) = 1 \/ h % 2 = 0
    IN  pick(NearestHundredths(x)) = pick(NearestHundredths(y))

\* C5 (original): identical inputs give identical names, and changing any
\* single input field changes the name.
C5_EveryFieldChangesName ==
    changed # None =>
        /\ (in_a = in_b => name_a = name_b)
        /\ (in_a # in_b => name_a # name_b)

\* C5 (amended): identical inputs give identical names; changing a single
\* field that is not a float hyperparameter changes the name; changing a
\* float hyperparameter changes the name whenever its value rounded to 2
\* decimals changes.
C5_NameSensitiveUpToRounding ==
    changed # None =>
        /\ (in_a = in_b => name_a = name_b)
        /\ (in_a # in_b /\ changed \notin FloatFields => name_a # name_b)
        /\ (/\ changed \in FloatFields
            /\ ~SameToTwoDecimals(FieldOf(in_a, changed).v, FieldOf(in_b, changed).v)
            => name_a # name_b)

\* a float hyperparameter changed to a value with other 2 decimals, and the
\* names differ
C5_Witness ==
    /\ changed = "dropout" /\ name_a # name_b
    /\ in_a.hyperparameters.dropout.v = 4
    /\ in_b.hyperparameters.dropout.v = 6

\* the (model, language) pairs in the order models outer, languages inner
ExpectedPair(k) ==
    [model    |-> models[((k - 1) \div Len(languages)) + 1].name,
     language |-> languages[((k - 1) % Len(languages)) + 1]]

AllExitsZero == \A k \in 1..Len(exits) : exits[k] = 0

\* C6: while every child has exited with status zero, the children started
\* are those of the first pairs of models x languages in the order models
\* outer, languages inner, one child per pair; at the end every pair had its
\* child; at most one child runs at a time, and a child is started only
\* after all earlier ones have exited.
C6_OneChildPerPairInOrder ==
    AllExitsZero =>
        /\ running \in {0, 1}
        /\ Len(started) = Len(exits) + running
        /\ Len(started) <= Len(models) * Len(languages)
        /\ \A k \in 1..Len(started) :
              /\ started[k].model = ExpectedPair(k).model
              /\ started[k].language = ExpectedPair(k).language
        /\ (bpc = "done" => Len(started) = Len(models) * Len(languages))

\* a batch of two models and two different languages ran to its end
C6_Witness ==
    /\ bpc = "done" /\ AllExitsZero /\ Len(started) = 4
    /\ models[1] # models[2] /\ languages[1] # languages[2]

\* C7: once a child has exited non-zero the batch is aborted: that child is
\* the last one started, no child is running, and no pair was started twice.
C7_NonZeroExitAborts ==
    ~AllExitsZero =>
        /\ bpc = "aborted"
        /\ running = 0
        /\ Len(started) = Len(exits)
        /\ \A k \in 1..Len(exits) : exits[k] # 0 <=> k = Len(exits)
        /\ \A k, l \in 1..Len(started) : started[k].at = started[l].at => k = l

\* the first child of a batch with pairs left failed
C7_Witness ==
    /\ bpc = "aborted" /\ Len(exits) = 1
    /\ Len(models) * Len(languages) > 1

\* C8: the training loop halts; it runs at most 500 epochs, it has halted
\* when the 500th epoch is over, and it has halted when the 3rd consecutive
\* validation round without improvement is over, so that no 4th such round
\* is run.
C8_TrainingHalts ==
    /\ [](/\ epoch <= 500
          /\ wait_count <= 3
          /\ (epoch = 500 => tpc # "fitting")
          /\ (wait_count = 3 => tpc = "early_stopping")
          /\ (tpc = "early_stopping" => wait_count = 3)
          /\ (tpc = "max_epochs" => epoch = 500))
    /\ <>(tpc # "fitting")

\* early stopping ended a training that had improved for a while
C8_Witness == tpc = "early_stopping" /\ epoch > 100 /\ epoch < 500

====
